---- MODULE Spec2Model ----
(***************************************************************************)
(* Model of scripts/dependency-miner.py: the two pom.xml dependency        *)
(* extractors, the commit traversal of mine_repository with its diff of    *)
(* the before/after snapshots, the CSV report and the entry point main.    *)
(*                                                                         *)
(* Python values are encoded uniformly as tuples so that TLC can compare   *)
(* them: None is <<>> and a present value x is <<x>>.  A dict is a         *)
(* function whose DOMAIN is the set of its keys.                           *)
(***************************************************************************)
EXTENDS Integers, Sequences, FiniteSets, TLC

VARIABLES
    pc,                     \* position of the process in main / mine_repository
    argv,                   \* sys.argv
    owner, repo,            \* arguments of mine_repository
    commit,                 \* the commit yielded by traverse_commits()
    fileIdx,                \* how many of commit.modified_files were iterated
    mod,                    \* the modified file of the current inner iteration
    nCommits,               \* commits yielded so far
    old_deps, new_deps,     \* locals of mine_repository
    rows,                   \* accumulated Change Records
    commits_with_changes,   \* set of commit hashes
    fs,                     \* working directory: file name -> content or None
    stdout,                 \* lines printed
    exit_code,              \* process exit status, None while running
    exc,                    \* the uncaught exception that ended the process
    pom_xml_text,           \* argument of the extractors (extractor harness)
    pom_result,             \* outcome of _parse_pom_dependencies
    block_result            \* outcome of _parse_dependency_blocks

vars == <<pc, argv, owner, repo, commit, fileIdx, mod, nCommits, old_deps,
          new_deps, rows, commits_with_changes, fs, stdout, exit_code, exc,
          pom_xml_text, pom_result, block_result>>

driverVars == <<pc, argv, owner, repo, commit, fileIdx, mod, nCommits,
                old_deps, new_deps, rows, commits_with_changes, fs, stdout,
                exit_code, exc>>

harnessVars == <<pom_xml_text, pom_result, block_result>>

----------------------------------------------------------------------------
(* Bounds *)

MaxDeps == 2        \* <dependency> elements per descriptor text
MaxCommits == 2     \* commits yielded by the history provider
MaxFiles == 2       \* modified files per commit
MaxArgs == 3        \* positional command-line arguments

----------------------------------------------------------------------------
(* Python values *)

None == <<>>
Some(x) == <<x>>

EmptyDict == <<>>

\* dependencies[key] = value
DictSet(d, key, value) == (key :> value) @@ d

Whitespace == {" ", "\t", "\n"}

RECURSIVE LStrip(_)
LStrip(s) ==
    IF s # <<>> /\ Head(s) \in Whitespace THEN LStrip(Tail(s)) ELSE s

RECURSIVE RStrip(_)
RStrip(s) ==
    IF s # <<>> /\ s[Len(s)] \in Whitespace
    THEN RStrip(SubSeq(s, 1, Len(s) - 1))
    ELSE s

RECURSIVE Join(_)
Join(s) == IF s = <<>> THEN "" ELSE Head(s) \o Join(Tail(s))

\* str.strip() of a text given as its sequence of characters
Strip(s) == Join(RStrip(LStrip(s)))

\* f"{group_id}:{artifact_id}"
Key(group_id, artifact_id) == group_id \o ":" \o artifact_id

\* str() of an optional version inside an f-string
Str(v) == IF v = None THEN "None" ELSE v[1]

----------------------------------------------------------------------------
(* Descriptor texts.  A text is None, the empty string, a whitespace-only  *)
(* string, a string that is not XML, or a well-formed document: its        *)
(* default namespace (None when it declares none) and its <dependency>     *)
(* elements in document order.  A child of a <dependency> is NoElement     *)
(* when the tag is not there, otherwise Element(t) where t is its .text:   *)
(* None for <tag/> and <tag></tag>, else Some(characters).                 *)

NoElement == <<>>
Element(t) == <<t>>

PomNamespace == "http://maven.apache.org/POM/4.0.0"

GroupTexts == {<<" ", "g", "\n">>}
ArtifactTexts == {<<"a">>, <<"b">>}
VersionTexts == {<<"1", " ">>}

DependencyElements ==
    [groupId : {NoElement, Element(None)} \cup
               {Element(Some(t)) : t \in GroupTexts},
     artifactId : {NoElement} \cup {Element(Some(t)) : t \in ArtifactTexts},
     version : {NoElement, Element(None)} \cup
               {Element(Some(t)) : t \in VersionTexts}]

\* the sequences over S of length at most n
SeqsUpTo(S, n) == UNION {[1..k -> S] : k \in 0..n}

Text(kind, ns, deps) == [kind |-> kind, ns |-> ns, deps |-> deps]

NoneText == Text("none", None, <<>>)
EmptyText == Text("empty", None, <<>>)
BlankText == Text("blank", None, <<>>)
GarbageText == Text("garbage", None, <<>>)

XmlTexts ==
    {Text("xml", ns, deps) :
        ns \in {None, Some(PomNamespace)},
        deps \in SeqsUpTo(DependencyElements, MaxDeps)}

Texts == {NoneText, EmptyText, BlankText, GarbageText} \cup XmlTexts

\* mutant: "pom_xml_text is None" in place of "not pom_xml_text"
Falsy_NoneOnly(text) == text.kind = "none"

\* "not pom_xml_text"
Falsy(text) == text.kind \in {"none", "empty"}

\* "not pom_xml_text.strip()"
StripFalsy(text) == text.kind \in {"empty", "blank"}

----------------------------------------------------------------------------
(* Outcome of a call: a returned dict or a raised exception *)

Return(d) == [status |-> "ok", exc |-> "", deps |-> d]
Raise(e) == [status |-> "raise", exc |-> e, deps |-> EmptyDict]
NotCalled == [status |-> "notcalled", exc |-> "", deps |-> EmptyDict]

----------------------------------------------------------------------------
(* _parse_pom_dependencies *)

\* the search paths chosen from the default namespace
Paths(namespace) ==
    [ns |-> namespace,
     dep_path |-> "dependency",
     group_path |-> "groupId",
     artifact_path |-> "artifactId",
     version_path |-> "version"]

\* tree.findall(dep_path, namespaces=ns): every element of the document is
\* in the document's default namespace
FindAll(tree, paths) ==
    IF paths.ns = tree.ns /\ paths.dep_path = "dependency"
    THEN tree.deps ELSE <<>>

\* dep.find(path, namespaces=ns): the direct child with that tag, or None
Find(dep, path) == IF path \in DOMAIN dep THEN dep[path] ELSE NoElement

RECURSIVE PomLoop(_, _, _, _)
PomLoop(found, paths, i, dependencies) ==
    IF i > Len(found) THEN Return(dependencies)
    ELSE LET dep == found[i]
             group == Find(dep, paths.group_path)
             artifact == Find(dep, paths.artifact_path)
             version == Find(dep, paths.version_path)
         IN  IF group = NoElement \/ artifact = NoElement
             THEN PomLoop(found, paths, i + 1, dependencies)
             ELSE IF group[1] = None \/ artifact[1] = None
                     \/ (version # NoElement /\ version[1] = None)
             THEN Raise("AttributeError")
             ELSE LET group_id == Strip(group[1][1])
                      artifact_id == Strip(artifact[1][1])
                      version_text == IF version # NoElement
                                      THEN Some(Strip(version[1][1]))
                                      ELSE None
                      key == Key(group_id, artifact_id)
                  IN  PomLoop(found, paths, i + 1,
                              DictSet(dependencies, key, version_text))

parse_pom_dependencies(text) ==
    IF Falsy(text) THEN Return(EmptyDict)
    ELSE IF text.kind # "xml" THEN Raise("XMLSyntaxError")
    ELSE LET paths == Paths(text.ns)
         IN  PomLoop(FindAll(text, paths), paths, 1, EmptyDict)

----------------------------------------------------------------------------
(* _parse_dependency_blocks *)

\* re.findall(r"<dependency>(.*?)</dependency>", text, re.DOTALL)
Blocks(text) == IF text.kind = "xml" THEN text.deps ELSE <<>>

\* re.search(r"<tag>([^<]+)</tag>", block): a match needs the element and
\* at least one character of text
Search(block, tag) ==
    IF block[tag] # NoElement /\ block[tag][1] # None
    THEN Some(block[tag][1][1]) ELSE None

RECURSIVE BlockLoop(_, _, _)
BlockLoop(blocks, i, deps) ==
    IF i > Len(blocks) THEN Return(deps)
    ELSE LET g == Search(blocks[i], "groupId")
             a == Search(blocks[i], "artifactId")
             v == Search(blocks[i], "version")
         IN  IF g # None /\ a # None /\ v # None
             THEN BlockLoop(blocks, i + 1,
                            DictSet(deps, Key(Strip(g[1]), Strip(a[1])),
                                    Some(Strip(v[1]))))
             ELSE BlockLoop(blocks, i + 1, deps)

parse_dependency_blocks(text) ==
    IF Falsy(text) \/ StripFalsy(text) THEN Return(EmptyDict)
    ELSE BlockLoop(Blocks(text), 1, EmptyDict)

----------------------------------------------------------------------------
(* Inputs of a run *)

Script == "dependency-miner.py"
ArgWords == <<"pac4j", "dropwizard-pac4j", "extra", "more">>

\* sys.argv: the script name followed by 0..MaxArgs positional arguments
Argvs == {<<Script>> \o SubSeq(ArgWords, 1, n) : n \in 0..MaxArgs}

\* f"{owner}_{repo}_dependency_commits.csv"
OutputFilename(o, r) == o \o "_" \o r \o "_dependency_commits.csv"

FileNames ==
    {OutputFilename(ArgWords[i], ArgWords[j]) : i, j \in 1..2}

StaleContent == <<<<"stale">>>>

\* paths of modified files, as their components
FilePaths == <<<<"README.md">>, <<"core", "pom.xml">>, <<"pom.xml">>>>

\* ModifiedFile.filename: the last component of the path
Filename(path) == path[Len(path)]

\* the file lists of a commit: distinct paths in the order of FilePaths, at
\* most MaxFiles of them
RECURSIVE Sublists(_)
Sublists(s) ==
    IF s = <<>> THEN {<<>>}
    ELSE LET rest == Sublists(Tail(s))
         IN  rest \cup {<<Head(s)>> \o t : t \in rest}

FileLists == {s \in Sublists(FilePaths) : Len(s) <= MaxFiles}

Dep(g, a, v) == [groupId |-> g, artifactId |-> a, version |-> v]
El(chars) == Element(Some(chars))

\* descriptor revisions met during a traversal
PomA ==
    Text("xml", Some(PomNamespace),
         <<Dep(El(<<"g">>), El(<<"a">>), El(<<"1">>))>>)
PomOld ==
    Text("xml", Some(PomNamespace),
         <<Dep(El(<<"g">>), El(<<"a">>), El(<<"1">>)),
           Dep(El(<<"g">>), El(<<"b">>), NoElement),
           Dep(El(<<"g">>), El(<<"u">>), NoElement),
           Dep(El(<<"g">>), El(<<"r">>), El(<<"1">>))>>)
PomNew ==
    Text("xml", None,
         <<Dep(El(<<"g">>), El(<<"a">>), El(<<"2", " ">>)),
           Dep(El(<<" ", "g", "\n">>), El(<<"b">>), El(<<"1">>)),
           Dep(El(<<"g">>), El(<<"u">>), NoElement),
           Dep(El(<<"g">>), El(<<"n">>), NoElement)>>)

\* (source_code_before, source_code) of a modified file
Revisions ==
    {<<NoneText, PomA>>, <<EmptyText, PomA>>, <<PomA, PomA>>,
     <<PomA, NoneText>>, <<PomOld, PomNew>>,
     <<PomA, GarbageText>>, <<GarbageText, PomA>>}

Authors == {"Ann Lee"}

\* Commit.hash of the n-th commit yielded: unique per commit
Hash(n) == "h" \o ToString(n)

CommitDate(n) ==
    [year |-> 2024, month |-> 3, day |-> n, hour |-> 9, minute |-> 5,
     second |-> 0, utcoffset |-> 60]

Pad2(n) == IF n < 10 THEN "0" \o ToString(n) ELSE ToString(n)

\* datetime.isoformat() of a timezone-aware datetime without microseconds
isoformat(d) ==
    ToString(d.year) \o "-" \o Pad2(d.month) \o "-" \o Pad2(d.day) \o "T"
    \o Pad2(d.hour) \o ":" \o Pad2(d.minute) \o ":" \o Pad2(d.second)
    \o (IF d.utcoffset < 0 THEN "-" ELSE "+")
    \o Pad2((IF d.utcoffset < 0 THEN -d.utcoffset ELSE d.utcoffset) \div 60)
    \o ":"
    \o Pad2((IF d.utcoffset < 0 THEN -d.utcoffset ELSE d.utcoffset) % 60)

NoCommit ==
    [hash |-> "", author |-> "", committer_date |-> CommitDate(0),
     modified_files |-> <<>>]

NoMod ==
    [filename |-> "", new_path |-> <<>>, source_code_before |-> NoneText,
     source_code |-> NoneText]

----------------------------------------------------------------------------
(* main *)

RepoUrl(o, r) == "https://github.com/" \o o \o "/" \o r

\* len(sys.argv) != 3: usage message and sys.exit(1)
MainUsage ==
    /\ pc = "main"
    /\ Len(argv) # 3
    /\ stdout' = stdout \o
            <<"Usage: python dependency-miner.py <owner> <repo>",
              "Example: python dependency-miner.py pac4j dropwizard-pac4j">>
    /\ exit_code' = Some(1)
    /\ pc' = "exit"
    /\ UNCHANGED <<argv, owner, repo, commit, fileIdx, mod, nCommits,
                   old_deps, new_deps, rows, commits_with_changes, fs, exc,
                   harnessVars>>

\* mutant: main accepts any argument list with at least owner and repo
MainMine_AtLeastTwo ==
    /\ pc = "main"
    /\ Len(argv) >= 3
    /\ owner' = Some(argv[2])
    /\ repo' = Some(argv[3])
    /\ stdout' = stdout \o
            <<"Analyzing repository: " \o argv[2] \o "/" \o argv[3],
              "URL: " \o RepoUrl(argv[2], argv[3]),
              "This may take a few minutes...\n">>
    /\ commits_with_changes' = {}
    /\ rows' = <<>>
    /\ pc' = "traverse"
    /\ UNCHANGED <<argv, commit, fileIdx, mod, nCommits, old_deps, new_deps,
                   fs, exit_code, exc, harnessVars>>

\* mine_repository(sys.argv[1], sys.argv[2]) up to the head of the commit loop
MainMine ==
    /\ pc = "main"
    /\ Len(argv) = 3
    /\ owner' = Some(argv[2])
    /\ repo' = Some(argv[3])
    /\ stdout' = stdout \o
            <<"Analyzing repository: " \o argv[2] \o "/" \o argv[3],
              "URL: " \o RepoUrl(argv[2], argv[3]),
              "This may take a few minutes...\n">>
    /\ commits_with_changes' = {}
    /\ rows' = <<>>
    /\ pc' = "traverse"
    /\ UNCHANGED <<argv, commit, fileIdx, mod, nCommits, old_deps, new_deps,
                   fs, exit_code, exc, harnessVars>>

----------------------------------------------------------------------------
(* mine_repository: the commit traversal *)

AtCommitBoundary == fileIdx = Len(commit.modified_files)

\* traverse_commits() yields the next commit
NextCommit ==
    /\ pc = "traverse"
    /\ AtCommitBoundary
    /\ nCommits < MaxCommits
    /\ \E files \in FileLists, author \in Authors :
          commit' = [hash |-> Hash(nCommits + 1),
                     author |-> author,
                     committer_date |-> CommitDate(nCommits + 1),
                     modified_files |-> files]
    /\ nCommits' = nCommits + 1
    /\ fileIdx' = 0
    /\ UNCHANGED <<pc, argv, owner, repo, mod, old_deps, new_deps, rows,
                   commits_with_changes, fs, stdout, exit_code, exc,
                   harnessVars>>

\* an uncaught exception ends the process with a traceback
Abort(e) ==
    /\ pc' = "aborted"
    /\ exit_code' = Some(1)
    /\ exc' = Some(e)

\* mutant: the rows held so far are written out when the provider fails
ProviderFails_WritesPartial ==
    /\ pc = "traverse"
    /\ Abort("GitCommandError")
    /\ fs' = [fs EXCEPT ![OutputFilename(owner[1], repo[1])] = Some(rows)]
    /\ UNCHANGED <<argv, owner, repo, commit, fileIdx, mod, nCommits,
                   old_deps, new_deps, rows, commits_with_changes, stdout,
                   harnessVars>>

\* the history provider raises when asked for the next commit or the next
\* modified file (network failure, repository not found, git error)
ProviderFails ==
    /\ pc = "traverse"
    /\ Abort("GitCommandError")
    /\ UNCHANGED <<argv, owner, repo, commit, fileIdx, mod, nCommits,
                   old_deps, new_deps, rows, commits_with_changes, fs, stdout,
                   harnessVars>>

\* the orders in which a set may be iterated
RECURSIVE Orders(_)
Orders(S) ==
    IF S = {} THEN {<<>>}
    ELSE UNION {{<<x>> \o o : o \in Orders(S \ {x})} : x \in S}

Row(c, dep, change) ==
    <<c.hash, isoformat(c.committer_date), c.author, dep, change>>

AddedRows(c, order) ==
    [i \in 1..Len(order) |-> Row(c, order[i], "added")]

RemovedRows(c, order) ==
    [i \in 1..Len(order) |-> Row(c, order[i], "removed")]

\* mutant: a version is compared only when both sides have one
RECURSIVE ChangedRows_BothVersioned(_, _, _, _)
ChangedRows_BothVersioned(c, old, new, order) ==
    IF order = <<>> THEN <<>>
    ELSE LET dep == Head(order)
             old_v == old[dep]
             new_v == new[dep]
             rest == ChangedRows_BothVersioned(c, old, new, Tail(order))
         IN  IF old_v # None /\ new_v # None /\ old_v # new_v
             THEN <<Row(c, dep, "changed from " \o Str(old_v) \o " to "
                                \o Str(new_v))>> \o rest
             ELSE rest

RECURSIVE ChangedRows(_, _, _, _)
ChangedRows(c, old, new, order) ==
    IF order = <<>> THEN <<>>
    ELSE LET dep == Head(order)
             old_v == old[dep]
             new_v == new[dep]
             rest == ChangedRows(c, old, new, Tail(order))
         IN  IF old_v # new_v
             THEN <<Row(c, dep, "changed from " \o Str(old_v) \o " to "
                                \o Str(new_v))>> \o rest
             ELSE rest

\* mutant: the loop over removed dependencies does not add the commit
MarkCommit_NotOnRemoved(set, hash, added, removed, changed) ==
    set \cup (IF added # <<>> THEN {hash} ELSE {})
        \cup (IF changed # <<>> THEN {hash} ELSE {})

\* commits_with_changes.add(commit.hash) after each appended row
MarkCommit(set, hash, added, removed, changed) ==
    set \cup (IF added # <<>> THEN {hash} ELSE {})
        \cup (IF removed # <<>> THEN {hash} ELSE {})
        \cup (IF changed # <<>> THEN {hash} ELSE {})

\* mutant: the file-name test is inverted
Skipped_Inverted(m) == m.filename = "pom.xml"

\* mod.filename != "pom.xml"
Skipped(m) == m.filename # "pom.xml"

\* lines 114-150 for a pom.xml: both extractions, then the three loops
\* (a singleton \E binds a value that is computed once)
DiffFile(m) ==
    \E old \in {parse_pom_dependencies(m.source_code_before)} :
      IF old.status # "ok"
      THEN /\ Abort(old.exc)
           /\ UNCHANGED <<fileIdx, old_deps, new_deps, rows,
                          commits_with_changes>>
      ELSE
    \E new \in {parse_pom_dependencies(m.source_code)} :
      IF new.status # "ok"
      THEN /\ Abort(new.exc)
           /\ old_deps' = old.deps
           /\ UNCHANGED <<fileIdx, new_deps, rows, commits_with_changes>>
      ELSE
    \E added \in Orders(DOMAIN new.deps \ DOMAIN old.deps),
       removed \in Orders(DOMAIN old.deps \ DOMAIN new.deps),
       common \in Orders(DOMAIN old.deps \cap DOMAIN new.deps) :
    \E changed \in {ChangedRows(commit, old.deps, new.deps, common)} :
        /\ old_deps' = old.deps
        /\ new_deps' = new.deps
        /\ rows' = rows \o AddedRows(commit, added)
                        \o RemovedRows(commit, removed) \o changed
        /\ commits_with_changes' =
              MarkCommit(commits_with_changes, commit.hash,
                         AddedRows(commit, added),
                         RemovedRows(commit, removed), changed)
        /\ fileIdx' = fileIdx + 1
        /\ UNCHANGED <<pc, exit_code, exc>>

\* one iteration of the loop over commit.modified_files
ProcessFile ==
    /\ pc = "traverse"
    /\ fileIdx < Len(commit.modified_files)
    /\ \E rev \in Revisions :
        LET path == commit.modified_files[fileIdx + 1]
            m == [filename |-> Filename(path), new_path |-> path,
                  source_code_before |-> rev[1], source_code |-> rev[2]]
        IN  /\ mod' = m
            /\ IF Skipped(m)
               THEN /\ fileIdx' = fileIdx + 1
                    /\ UNCHANGED <<pc, old_deps, new_deps, rows,
                                   commits_with_changes, exit_code, exc>>
               ELSE DiffFile(m)
    /\ UNCHANGED <<argv, owner, repo, commit, nCommits, fs, stdout,
                   harnessVars>>

----------------------------------------------------------------------------
(* mine_repository: the report *)

Header ==
    <<"commit_hash", "commit_date", "commit_author", "dependency",
      "change_type">>

\* mutant: the header is written only when there are rows
WriteCsv_HeaderWithRows(header, records) ==
    IF records = <<>> THEN <<>> ELSE <<header>> \o records

\* csv.writer: writerow(header), writerows(rows); the file is its records
WriteCsv(header, records) == <<header>> \o records

\* the traversal is exhausted: write the report and print the summary
WriteReport ==
    /\ pc = "traverse"
    /\ AtCommitBoundary
    /\ LET output_filename == OutputFilename(owner[1], repo[1])
           count == ToString(Cardinality(commits_with_changes))
       IN  /\ fs' = [fs EXCEPT ![output_filename] =
                                    Some(WriteCsv(Header, rows))]
           /\ stdout' = stdout \o
                <<"Results:",
                  "Number of commits with dependency changes: " \o count,
                  "Commit list saved to: " \o output_filename,
                  "Repository: " \o owner[1] \o "/" \o repo[1],
                  "Commits with dependency changes: " \o count,
                  "\nCommit list saved to: " \o output_filename>>
    /\ pc' = "done"
    /\ exit_code' = Some(0)
    /\ UNCHANGED <<argv, owner, repo, commit, fileIdx, mod, nCommits,
                   old_deps, new_deps, rows, commits_with_changes, exc,
                   harnessVars>>

----------------------------------------------------------------------------
(* A run of the script *)

InitLocals ==
    /\ owner = None /\ repo = None
    /\ commit = NoCommit /\ mod = NoMod
    /\ fileIdx = 0 /\ nCommits = 0
    /\ old_deps = EmptyDict /\ new_deps = EmptyDict
    /\ rows = <<>> /\ commits_with_changes = {}
    /\ stdout = <<>> /\ exit_code = None /\ exc = None

Init ==
    /\ pc = "main"
    /\ argv \in Argvs
    /\ fs \in {[f \in FileNames |-> None], [f \in FileNames |-> Some(StaleContent)]}
    /\ InitLocals
    /\ pom_xml_text = NoneText
    /\ pom_result = NotCalled
    /\ block_result = NotCalled

Next ==
    \/ MainUsage
    \/ MainMine
    \/ NextCommit
    \/ ProviderFails
    \/ ProcessFile
    \/ WriteReport

Spec == Init /\ [][Next]_vars

----------------------------------------------------------------------------
(* Extractor harness: both extractors applied to one descriptor text *)

CallParsePom ==
    /\ pc = "extract"
    /\ pom_result = NotCalled
    /\ pom_result' = parse_pom_dependencies(pom_xml_text)
    /\ UNCHANGED <<driverVars, pom_xml_text, block_result>>

CallParseBlocks ==
    /\ pc = "extract"
    /\ block_result = NotCalled
    /\ block_result' = parse_dependency_blocks(pom_xml_text)
    /\ UNCHANGED <<driverVars, pom_xml_text, pom_result>>

InitExtract ==
    /\ pc = "extract"
    /\ argv = <<Script>>
    /\ fs = [f \in FileNames |-> None]
    /\ InitLocals
    /\ pom_xml_text \in Texts
    /\ pom_result = NotCalled
    /\ block_result = NotCalled

NextExtract == CallParsePom \/ CallParseBlocks

SpecExtract == InitExtract /\ [][NextExtract]_vars

----------------------------------------------------------------------------
(* Properties of the diff step *)

RowHash(r) == r[1]
RowDep(r) == r[4]
RowChange(r) == r[5]

\* the rows a step appended
Emitted == SubSeq(rows', Len(rows) + 1, Len(rows'))

\* a step that is one iteration of the inner loop, run to its end
FileDone == pc = "traverse" /\ pc' = "traverse" /\ fileIdx' = fileIdx + 1

\* a step that is one iteration of the inner loop, completed or aborted by
\* the extractor
FileStep ==
    /\ pc = "traverse"
    /\ fileIdx < Len(commit.modified_files)
    /\ \/ fileIdx' = fileIdx + 1
       \/ pc' = "aborted" /\ exc' # Some("GitCommandError")

\* C1: the diff of the snapshots before (A) and after (B) of a pom.xml
\* appends, for every key of A union B, exactly one "added" row when the key
\* is only in B, exactly one "removed" row when it is only in A, exactly one
\* "changed from X to Y" row when it is in both with different versions (a
\* null version against a non-null one included), and no row when the
\* versions are the same; it appends nothing else and keeps the rows it had.
C1_DiffClassifiesEveryKey ==
    [][(FileDone /\ mod'.filename = "pom.xml") =>
        LET A == old_deps'
            B == new_deps'
            RowsOf(k) == {i \in DOMAIN Emitted : RowDep(Emitted[i]) = k}
        IN  /\ Len(rows') >= Len(rows)
            /\ SubSeq(rows', 1, Len(rows)) = rows
            /\ \A i \in DOMAIN Emitted :
                  /\ RowDep(Emitted[i]) \in DOMAIN A \cup DOMAIN B
                  /\ RowHash(Emitted[i]) = commit.hash
            /\ \A k \in DOMAIN A \cup DOMAIN B :
                  IF k \notin DOMAIN A
                  THEN /\ Cardinality(RowsOf(k)) = 1
                       /\ \A i \in RowsOf(k) : RowChange(Emitted[i]) = "added"
                  ELSE IF k \notin DOMAIN B
                  THEN /\ Cardinality(RowsOf(k)) = 1
                       /\ \A i \in RowsOf(k) : RowChange(Emitted[i]) = "removed"
                  ELSE IF A[k] # B[k]
                  THEN /\ Cardinality(RowsOf(k)) = 1
                       /\ \A i \in RowsOf(k) :
                             RowChange(Emitted[i]) =
                                "changed from " \o Str(A[k]) \o " to " \o Str(B[k])
                  ELSE RowsOf(k) = {}
      ]_vars

\* a diff whose keys fall in all four classes, with a null-to-version change
C1_Witness ==
    /\ pc = "traverse" /\ fileIdx > 0 /\ mod.filename = "pom.xml"
    /\ DOMAIN new_deps \ DOMAIN old_deps # {}
    /\ DOMAIN old_deps \ DOMAIN new_deps # {}
    /\ \E k \in DOMAIN old_deps \cap DOMAIN new_deps :
          old_deps[k] = None /\ new_deps[k] = None
    /\ \E i, j \in DOMAIN rows :
          /\ RowChange(rows[i]) = "changed from None to 1"
          /\ RowChange(rows[j]) = "changed from 1 to 2"

\* the descriptor parses: a document none of whose elements is empty
Parseable(text) ==
    /\ text.kind = "xml"
    /\ \A i \in DOMAIN text.deps :
          \A tag \in DOMAIN text.deps[i] : text.deps[i][tag] # Element(None)

Absent(text) == text.kind \in {"none", "empty"}

\* C4: an absent (None) or empty before-content is the empty snapshot and no
\* error, so a pom.xml created in a commit is processed to its end and yields
\* only "added" rows; the same for an absent or empty after-content of a
\* deleted pom.xml, which yields only "removed" rows.
C4_AbsentContentIsEmptySnapshot ==
    [][(FileStep /\ mod'.filename = "pom.xml") =>
        /\ (Absent(mod'.source_code_before) /\ Parseable(mod'.source_code)) =>
              /\ FileDone
              /\ old_deps' = EmptyDict
              /\ DOMAIN new_deps' # {} => Emitted # <<>>
              /\ \A i \in DOMAIN Emitted : RowChange(Emitted[i]) = "added"
        /\ (Absent(mod'.source_code) /\ Parseable(mod'.source_code_before)) =>
              /\ FileDone
              /\ new_deps' = EmptyDict
              /\ DOMAIN old_deps' # {} => Emitted # <<>>
              /\ \A i \in DOMAIN Emitted : RowChange(Emitted[i]) = "removed"
      ]_vars

\* a created pom.xml (empty before-content) whose dependency was recorded
C4_Witness ==
    /\ pc = "traverse" /\ fileIdx > 0 /\ mod.filename = "pom.xml"
    /\ mod.source_code_before = EmptyText
    /\ old_deps = EmptyDict
    /\ rows # <<>>
    /\ RowChange(rows[Len(rows)]) = "added"
    /\ RowHash(rows[Len(rows)]) = commit.hash

----------------------------------------------------------------------------
(* Properties of the traversal *)

HashesOf(rs) == {RowHash(rs[i]) : i \in DOMAIN rs}

\* C5: at every point of the traversal commits_with_changes is exactly the
\* set of commit hashes found in the accumulated rows, it never counts more
\* than the commits yielded, and the count printed at the end is the number
\* of distinct commits in the rows.
C5_CommitSetIsHashesOfRows ==
    /\ commits_with_changes = HashesOf(rows)
    /\ Cardinality(commits_with_changes) <= nCommits
    /\ pc = "done" =>
          stdout[5] = "Number of commits with dependency changes: "
                      \o ToString(Cardinality(HashesOf(rows)))

\* two commits traversed, one with several rows and one with none
C5_Witness ==
    /\ pc = "traverse" /\ nCommits = 2 /\ AtCommitBoundary
    /\ Len(rows) >= 3
    /\ Cardinality(commits_with_changes) = 1
    /\ \E i \in DOMAIN rows : RowChange(rows[i]) = "removed"

\* C6: a modified file whose name is not pom.xml is not given to the
\* extractor or the diff: the step leaves rows, commits_with_changes and both
\* snapshots as they were and cannot abort; so while a commit has had only
\* such files iterated, no row carries its hash and the set does not hold it.
C6_OtherFilesIgnored ==
    /\ [](LET files == commit.modified_files
          IN  (nCommits > 0 /\
               \A i \in 1..fileIdx : Filename(files[i]) # "pom.xml") =>
                 /\ commit.hash \notin commits_with_changes
                 /\ commit.hash \notin HashesOf(rows))
    /\ [][(FileStep /\ mod'.filename # "pom.xml") =>
            /\ FileDone
            /\ rows' = rows
            /\ commits_with_changes' = commits_with_changes
            /\ old_deps' = old_deps /\ new_deps' = new_deps
         ]_vars

\* a second commit that modified only README.md, whose content is a
\* dependency declaration, after a commit that left rows
C6_Witness ==
    /\ pc = "traverse" /\ nCommits = 2
    /\ commit.modified_files = <<<<"README.md">>>> /\ fileIdx = 1
    /\ mod.filename = "README.md"
    /\ mod.source_code_before = NoneText /\ mod.source_code = PomA
    /\ rows # <<>>
    /\ commit.hash \notin commits_with_changes

----------------------------------------------------------------------------
(* Properties of the report and of the process *)

InitialFs ==
    {[f \in FileNames |-> None], [f \in FileNames |-> Some(StaleContent)]}

ProgressLines == {1, 2, 3}

\* C7: when the run completes, the output file named after owner and repo
\* holds the five-column header and then the accumulated rows, one record
\* per row in the order of accumulation, and nothing else.
C7_ReportIsHeaderThenRows ==
    pc = "done" =>
        LET name == argv[2] \o "_" \o argv[3] \o "_dependency_commits.csv"
            content == fs[name][1]
        IN  /\ fs[name] # None
            /\ Len(content) = Len(rows) + 1
            /\ content[1] = <<"commit_hash", "commit_date", "commit_author",
                              "dependency", "change_type">>
            /\ \A i \in DOMAIN rows : content[i + 1] = rows[i] /\ Len(rows[i]) = 5
            /\ \A f \in DOMAIN fs \ {name} :
                  fs[f] = None \/ fs[f] = Some(<<<<"stale">>>>)

\* a completed run that wrote several rows
C7_Witness ==
    /\ pc = "done" /\ Len(rows) >= 3
    /\ \E i \in DOMAIN rows : RowChange(rows[i]) = "changed from 1 to 2"

\* C8: a run aborted by a failure of the history provider or of the
\* extractor leaves the working directory as it found it and prints no
\* summary; until the traversal has completed no file is written; an aborted
\* run takes no further step.
C8_AbortLeavesNoPartialResults ==
    /\ [](pc # "done" => fs \in InitialFs)
    /\ [](pc = "aborted" =>
            /\ exit_code = Some(1)
            /\ DOMAIN stdout = ProgressLines
            /\ \A i \in DOMAIN stdout : stdout[i] # "Results:")
    /\ [][pc # "aborted"]_vars

\* an extractor failure in the middle of a commit, with rows already held
C8_Witness ==
    /\ pc = "aborted"
    /\ rows # <<>>
    /\ fileIdx < Len(commit.modified_files)
    /\ mod.source_code = GarbageText
    /\ exc = Some("XMLSyntaxError")

\* C9: with a number of positional arguments other than two, main prints
\* the usage message and exits with status 1 without traversing or touching
\* a file; with two, mine_repository runs with them as owner and repo.
C9_UsageUnlessTwoArguments ==
    pc # "main" =>
        IF Len(argv) - 1 # 2
        THEN /\ pc = "exit"
             /\ exit_code # None /\ exit_code # Some(0)
             /\ Len(stdout) = 2
             /\ stdout[1] = "Usage: python dependency-miner.py <owner> <repo>"
             /\ fs \in InitialFs
             /\ nCommits = 0 /\ rows = <<>>
             /\ owner = None /\ repo = None
        ELSE /\ pc \in {"traverse", "done", "aborted"}
             /\ owner = Some(argv[2]) /\ repo = Some(argv[3])
             /\ stdout[1] = "Analyzing repository: " \o argv[2] \o "/" \o argv[3]

\* the script was given three arguments and has exited with the usage
C9_Witness == pc = "exit" /\ Len(argv) - 1 = 3 /\ exit_code = Some(1)

\* C10 as stated: no two rows share the commit and the dependency key
C10_OneRowPerCommitAndKey ==
    \A i, j \in DOMAIN rows :
        i # j => ~(RowHash(rows[i]) = RowHash(rows[j])
                   /\ RowDep(rows[i]) = RowDep(rows[j]))

----------------------------------------------------------------------------
(* Properties of the extractors *)

Missing(child) == child = NoElement \/ child = Element(None)

\* the entries of a document that carry both identifiers
Kept(text) ==
    {i \in DOMAIN text.deps :
        ~Missing(text.deps[i].groupId) /\ ~Missing(text.deps[i].artifactId)}

EntryKey(e) == Strip(e.groupId[1][1]) \o ":" \o Strip(e.artifactId[1][1])

EntryVersion(e) ==
    IF Missing(e.version) THEN None ELSE Some(Strip(e.version[1][1]))

\* C2 as stated: on every document the structural parse returns a snapshot;
\* an entry without group or artifact identifier gives no key, every entry
\* with both gives its key, and the key of an entry without version maps to
\* null (the last entry of a key decides its version).
C2_MalformedEntriesSkipped ==
    (pom_result # NotCalled /\ pom_xml_text.kind = "xml") =>
        LET deps == pom_xml_text.deps
        IN  /\ pom_result.status = "ok"
            /\ DOMAIN pom_result.deps = {EntryKey(deps[i]) : i \in Kept(pom_xml_text)}
            /\ \A i \in Kept(pom_xml_text) :
                  (\A j \in Kept(pom_xml_text) :
                        j > i => EntryKey(deps[j]) # EntryKey(deps[i]))
                  => pom_result.deps[EntryKey(deps[i])] = EntryVersion(deps[i])

\* C3 as stated: on a document without empty elements the structural parse
\* and the pattern scan return the same snapshot
C3_ExtractorsAgree ==
    (pom_result # NotCalled /\ block_result # NotCalled
     /\ Parseable(pom_xml_text)) => pom_result = block_result

====
